---- MODULE Spec2Model ----
(***************************************************************************)
(* A model of the Jira bulk-create backend (backend/routers/jira.py):      *)
(*   - the bulk-result reconciler  _parse_bulk_index_map                   *)
(*   - the plain-text-to-ADF compiler  adf_from_plain / _adf_inline        *)
(*   - the request handler  jira_bulk_create  with its OAuth record         *)
(* Python strings are sequences of one-character strings; None is the      *)
(* value None below; a dict with an absent key reads as None (dict.get).   *)
(***************************************************************************)
EXTENDS Integers, Sequences, FiniteSets, TLC

VARIABLES
    pc,          \* position of the call / request being modelled
    n_updates,   \* _parse_bulk_index_map: argument n_updates
    resp_json,   \* _parse_bulk_index_map: argument resp_json
    mapping,     \* _parse_bulk_index_map: the returned dict
    srv,         \* what the remote tracker really did with the batch
    text,        \* adf_from_plain / _adf_inline: argument text
    doc,         \* adf_from_plain: the returned document
    nodes,       \* _adf_inline: the returned list of text nodes
    oauth_doc,   \* the stored "default" document of oauth_col
    now,         \* int(time.time())
    payload,     \* jira_bulk_create: payload.rows
    issue_type,  \* jira_bulk_create: query parameter issue_type
    create_links,\* jira_bulk_create: query parameter create_links
    frame,       \* jira_bulk_create: the locals that live across remote calls
    calls,       \* the remote HTTP calls the request has issued, in order
    response,    \* what the request was answered with
    link_text,   \* _split_issue_keys: argument s
    keys,        \* _split_issue_keys: the returned list
    flows,       \* the oauth_start / oauth_callback requests, by request id
    cases_col,   \* the stored documents of cases_col, in insertion order
    cases_req,   \* the last request to save_db / clear_cases, and how many so far
    cases_resp   \* what that request was answered with

parseVars == <<n_updates, resp_json, mapping, srv>>
adfVars == <<text, doc, nodes>>
requestVars == <<payload, issue_type, create_links>>
handlerVars == <<oauth_doc, now, payload, issue_type, create_links, frame, calls, response>>
splitVars == <<link_text, keys>>
oauthVars == <<flows>>
casesVars == <<cases_col, cases_req, cases_resp>>
vars == <<pc, n_updates, resp_json, mapping, srv, text, doc, nodes,
          oauth_doc, now, payload, issue_type, create_links, frame, calls, response,
          link_text, keys, flows, cases_col, cases_req, cases_resp>>

(***************************************************************************)
(* Bounds of the model.                                                    *)
(***************************************************************************)
MaxN      == 3   \* largest n_updates of the reconciler's arbitrary inputs
MaxIssues == 2   \* longest "issues" list of an arbitrary response
MaxErrors == 2   \* longest "errors" list of an arbitrary response
MaxReq    == 5   \* largest batch the modelled tracker answers
MaxLines  == 4   \* most lines of a text given to adf_from_plain
MaxTrail  == 1   \* most newlines appended after the last line
MaxInline == 6   \* longest line given to _adf_inline
MaxRows   == 2   \* longest payload whose rows are all chosen freely
ClockStart == 1000   \* the clock when the request arrives
MaxKeyText == 5  \* longest link_relates text given to _split_issue_keys
MaxText == 5  \* longest text given to adf_from_plain character by character
MaxFlows == 3  \* most oauth_start / oauth_callback requests in one behaviour
MaxCaseRows == 2  \* longest rows array given to save_db
MaxCaseRequests == 3  \* most save_db / clear_cases requests in one behaviour

(***************************************************************************)
(* Python values.                                                          *)
(***************************************************************************)
None == "<None>"

\* Python truthiness of a str-or-None value: None and "" are falsy.
Truthy(x) == x # None /\ x # ""

Min(a, b) == IF a <= b THEN a ELSE b

\* The sequences over S of length 0..n.
SeqUpTo(S, n) == UNION {[1..k -> S] : k \in 0..n}

(***************************************************************************)
(* _parse_bulk_index_map(resp_json, n_updates)                             *)
(*                                                                         *)
(* A response is [issues |-> <<issue,...>>, errors |-> <<entry,...>>].     *)
(* An issue is a dict, read only through .get("key"): [key |-> k] with k a *)
(* key, "" or None (key absent).  An errors entry is                       *)
(*   [isdict |-> is it a dict, isint |-> is its failedElementNumber an     *)
(*    int, num |-> that int (0 when there is none)].                       *)
(***************************************************************************)

\* failed_nums after both list comprehensions (lines 244-245): the
\* failedElementNumber of every entry that is a dict and holds an int.
RECURSIVE failed_nums(_)
failed_nums(errors) ==
    IF errors = <<>> THEN <<>>
    ELSE LET e == Head(errors)
             rest == failed_nums(Tail(errors))
         IN IF e.isdict /\ e.isint THEN <<e.num>> \o rest ELSE rest

\* line 246
one_based(nums, n) == \E i \in 1..Len(nums) : nums[i] >= n

\* A reconciler that mixes bases: only the numbers >= n are decremented.
failed_mixed(nums, n) ==
    {IF nums[i] >= n THEN nums[i] - 1 ELSE nums[i] : i \in 1..Len(nums)}

\* line 247
failed(nums, n) ==
    {IF one_based(nums, n) THEN nums[i] - 1 ELSE nums[i] : i \in 1..Len(nums)}

\* range(n_updates + 1) in place of range(n_updates).
RECURSIVE success_from_incl(_, _, _)
success_from_incl(i, n, F) ==
    IF i > n THEN <<>>
    ELSE IF i \notin F THEN <<i>> \o success_from_incl(i + 1, n, F)
    ELSE success_from_incl(i + 1, n, F)

\* line 249: [i for i in range(n_updates) if i not in failed], built from i.
RECURSIVE success_from(_, _, _)
success_from(i, n, F) ==
    IF i >= n THEN <<>>
    ELSE IF i \notin F THEN <<i>> \o success_from(i + 1, n, F)
    ELSE success_from(i + 1, n, F)

success_indices(nums, n) == success_from(0, n, failed(nums, n))

\* A zip loop that stores the key without testing it.
zip_step_unchecked(m, idx, issue) == (idx :> issue.key) @@ m

\* lines 252-254: one iteration of the zip loop.
zip_step(m, idx, issue) ==
    IF Truthy(issue.key) THEN (idx :> issue.key) @@ m ELSE m

\* lines 251-254: the loop over zip(success_indices, issues), from pair k.
RECURSIVE zip_loop(_, _, _, _)
zip_loop(k, succ, issues, m) ==
    IF k > Len(succ) \/ k > Len(issues) THEN m
    ELSE zip_loop(k + 1, succ, issues, zip_step(m, succ[k], issues[k]))

\* lines 241-255
_parse_bulk_index_map(resp, n) ==
    zip_loop(1, success_indices(failed_nums(resp.errors), n), resp.issues, <<>>)

(***************************************************************************)
(* Inputs of the reconciler.                                               *)
(***************************************************************************)
IssueKeys == {"A-1", "A-2"}

\* An issue of a response: a created key, an empty key, or no key at all.
Issues == {[key |-> k] : k \in IssueKeys \cup {"", None}}

IntEntry(v) == [isdict |-> TRUE, isint |-> TRUE, num |-> v]
NonIntEntry == [isdict |-> TRUE, isint |-> FALSE, num |-> 0]
NonDictEntry == [isdict |-> FALSE, isint |-> FALSE, num |-> 0]

\* An errors entry: failedElementNumber 0..MaxN+1, a non-int, or a non-dict.
ErrorEntries == {IntEntry(v) : v \in 0..(MaxN + 1)} \cup {NonIntEntry, NonDictEntry}

Responses ==
    {[issues |-> is, errors |-> es] :
        is \in SeqUpTo(Issues, MaxIssues), es \in SeqUpTo(ErrorEntries, MaxErrors)}

NoSrv == [fails |-> {}, base |-> 0]

ParseIdle ==
    /\ n_updates = 0
    /\ resp_json = [issues |-> <<>>, errors |-> <<>>]
    /\ mapping = <<>>
    /\ srv = NoSrv

AdfIdle ==
    /\ text = <<>>
    /\ doc = None
    /\ nodes = <<>>

NoDoc ==
    [exists |-> FALSE, access_token |-> None, refresh_token |-> None, expires_at |-> 0,
     cloud_id |-> None, cloud_url |-> None, oauth_state |-> None]

NoAuth == [access_token |-> None, cloud_id |-> None, cloud_url |-> None]

\* doc and now: what _ensure_valid_access_token read; auth: what it returned;
\* idx_to_key: the reconciled mapping; plan: the link calls still to issue.
NoFrame == [doc |-> NoDoc, now |-> 0, auth |-> NoAuth, idx_to_key |-> <<>>, plan |-> <<>>]

NoResponse == [status |-> 0, detail |-> "", created |-> <<>>, jira_base_url |-> None]

HandlerIdle ==
    /\ oauth_doc = NoDoc
    /\ now = 0
    /\ payload = <<>>
    /\ issue_type = ""
    /\ create_links = FALSE
    /\ frame = NoFrame
    /\ calls = <<>>
    /\ response = NoResponse

SplitIdle ==
    /\ link_text = <<>>
    /\ keys = <<>>

OAuthIdle == flows = <<>>

NoCasesRequest == [n |-> 0, kind |-> "none", issue_type |-> <<>>]

NoCasesResponse == [status |-> 0, detail |-> "", count |-> 0]

CasesIdle ==
    /\ cases_col = <<>>
    /\ cases_req = NoCasesRequest
    /\ cases_resp = NoCasesResponse

(***************************************************************************)
(* SpecParse: _parse_bulk_index_map applied to every bounded response.     *)
(***************************************************************************)
InitParse ==
    /\ pc = "call"
    /\ n_updates \in 0..MaxN
    /\ resp_json \in Responses
    /\ mapping = <<>>
    /\ srv = NoSrv
    /\ AdfIdle
    /\ HandlerIdle
    /\ SplitIdle
    /\ OAuthIdle
    /\ CasesIdle

Parse ==
    /\ pc = "call"
    /\ mapping' = _parse_bulk_index_map(resp_json, n_updates)
    /\ pc' = "done"
    /\ UNCHANGED <<n_updates, resp_json, srv>>
    /\ UNCHANGED adfVars
    /\ UNCHANGED handlerVars
    /\ UNCHANGED splitVars
    /\ UNCHANGED oauthVars
    /\ UNCHANGED casesVars

NextParse == Parse

SpecParse == InitParse /\ [][NextParse]_vars

(***************************************************************************)
(* SpecServer: the response comes from a tracker that created the items of *)
(* the positions outside srv.fails in submission order and reported         *)
(* srv.fails with every number raised by srv.base (0-based or 1-based).    *)
(***************************************************************************)
\* The key the tracker gives the item created for request position i:
\* "A-1" for position 0, "A-2" for position 1, ...
CreatedKey(i) == "A-" \o ToString(i + 1)

\* The positions of S in ascending order.
RECURSIVE Ascending(_)
Ascending(S) ==
    IF S = {} THEN <<>>
    ELSE LET lo == CHOOSE x \in S : \A y \in S : x <= y
         IN <<lo>> \o Ascending(S \ {lo})

ServerResponse(n, F, base) ==
    LET ok == Ascending((0..(n - 1)) \ F)
        bad == Ascending(F)
    IN [issues |-> [k \in 1..Len(ok) |-> [key |-> CreatedKey(ok[k])]],
        errors |-> [k \in 1..Len(bad) |-> IntEntry(bad[k] + base)]]

InitServer ==
    /\ pc = "call"
    /\ n_updates \in 1..MaxReq
    /\ \E F \in SUBSET (0..(n_updates - 1)), base \in {0, 1} :
          /\ srv = [fails |-> F, base |-> base]
          /\ resp_json = ServerResponse(n_updates, F, base)
    /\ mapping = <<>>
    /\ AdfIdle
    /\ HandlerIdle
    /\ SplitIdle
    /\ OAuthIdle
    /\ CasesIdle

SpecServer == InitServer /\ [][NextParse]_vars

(***************************************************************************)
(* Properties of the reconciler.  They are stated from the response alone: *)
(* the integer failure numbers as a set, the shift, and the rank of a       *)
(* surviving position among the surviving positions.                        *)
(***************************************************************************)
\* The integer failedElementNumbers of the response.
IntFailures == {resp_json.errors[i].num :
                   i \in {j \in DOMAIN resp_json.errors :
                             resp_json.errors[j].isdict /\ resp_json.errors[j].isint}}

\* 1 when some integer failure number is >= n_updates, else 0.
Shift == IF \E v \in IntFailures : v >= n_updates THEN 1 ELSE 0

NormFailed == {v - Shift : v \in IntFailures}

Surviving == (0..(n_updates - 1)) \ NormFailed

\* p is the Rank(p)-th surviving position in ascending order.
Rank(p) == Cardinality({q \in Surviving : q < p}) + 1

IsMapped(p, k) == p \in DOMAIN mapping /\ mapping[p] = k

\* C1: when the tracker creates the items in submission order and reports
\* the failed positions all 0-based or all 1-based, the returned mapping
\* takes every non-failed position to the key created for that position and
\* holds no failed position, whichever numbering was used.
C1_ServerOrderMapping ==
    pc = "done" =>
        mapping = [i \in (0..(n_updates - 1)) \ srv.fails |-> CreatedKey(i)]

\* C2: failure numbers are normalized all-or-nothing (all decremented when
\* one of them is >= n_updates, none otherwise); the entries of the mapping
\* are exactly the pairs (i-th surviving position, i-th issue) whose issue
\* has a key; and the two examples of the specification come out as stated.
C2_AllOrNothingZip ==
    pc = "done" =>
        /\ \A p \in DOMAIN mapping :
              /\ p \in Surviving
              /\ Rank(p) <= Len(resp_json.issues)
              /\ mapping[p] = resp_json.issues[Rank(p)].key
        /\ \A p \in Surviving :
              (Rank(p) <= Len(resp_json.issues)
                   /\ Truthy(resp_json.issues[Rank(p)].key))
                 => IsMapped(p, resp_json.issues[Rank(p)].key)
        /\ (/\ n_updates = 3
            /\ resp_json = [issues |-> <<[key |-> "A-1"], [key |-> "A-2"]>>,
                            errors |-> <<IntEntry(1)>>])
              => mapping = (0 :> "A-1") @@ (2 :> "A-2")
        /\ (/\ n_updates = 3
            /\ resp_json = [issues |-> <<[key |-> "A-1"]>>,
                            errors |-> <<IntEntry(3)>>])
              => mapping = (0 :> "A-1")

\* The second example of C2 has run: 3 >= 3 made the list 1-based.
C2_Witness ==
    /\ pc = "done"
    /\ n_updates = 3
    /\ resp_json = [issues |-> <<[key |-> "A-1"]>>, errors |-> <<IntEntry(3)>>]
    /\ mapping = (0 :> "A-1")

\* C3: the i-th surviving position is mapped to the key of the i-th issue
\* if and only if that key is non-empty; a pair dropped for its missing or
\* empty key shifts no other pair.
C3_KeylessPairDropped ==
    pc = "done" =>
        \A p \in Surviving :
            Rank(p) <= Len(resp_json.issues) =>
                LET key == resp_json.issues[Rank(p)].key
                IN /\ (p \in DOMAIN mapping) <=> Truthy(key)
                   /\ (p \in DOMAIN mapping) => mapping[p] = key

\* A first pair without a key was dropped and the second pair kept its place.
C3_Witness ==
    /\ pc = "done"
    /\ n_updates = 2
    /\ resp_json.errors = <<>>
    /\ resp_json.issues = <<[key |-> None], [key |-> "A-2"]>>
    /\ mapping = (1 :> "A-2")

\* C4: the keys of the mapping lie in 0..n_updates-1, none is a normalized
\* failure position, there are at most min(#issues, #surviving) of them and
\* none with n_updates = 0; a normalized failure outside 0..n_updates-1
\* removes no position, and the surviving positions past the number of
\* issues stay unmapped.
C4_MappingBounds ==
    pc = "done" =>
        LET inRange == NormFailed \cap (0..(n_updates - 1))
            nSurv == n_updates - Cardinality(inRange)
        IN /\ DOMAIN mapping \subseteq 0..(n_updates - 1)
           /\ DOMAIN mapping \cap NormFailed = {}
           /\ Cardinality(DOMAIN mapping) <= Min(Len(resp_json.issues), nSurv)
           /\ n_updates = 0 => mapping = <<>>
           /\ (\A k \in DOMAIN resp_json.issues : Truthy(resp_json.issues[k].key))
                 => Cardinality(DOMAIN mapping) = Min(Len(resp_json.issues), nSurv)
           /\ \A p \in DOMAIN mapping :
                 Cardinality({q \in 0..(p - 1) : q \notin inRange})
                    < Len(resp_json.issues)

\* The failure number 3 of a batch of 2 is 1-based and, as position 2, out
\* of range: both positions survive, and the one issue leaves 1 unmapped.
C4_Witness ==
    /\ pc = "done"
    /\ n_updates = 2
    /\ resp_json = [issues |-> <<[key |-> "A-1"]>>, errors |-> <<IntEntry(3)>>]
    /\ mapping = (0 :> "A-1")

(***************************************************************************)
(* Python str operations on sequences of characters.                       *)
(***************************************************************************)
\* The characters str.strip() and str.rstrip() remove.
WhiteSpace == {" ", "\t", "\n", "\r", "\f"}

IsSpace(c) == c \in WhiteSpace

\* s[a:] and s[:b] of Python, a and b 0-based.
SliceFrom(s, a) == SubSeq(s, a + 1, Len(s))
Slice(s, a, b) == SubSeq(s, a + 1, b)

\* s.rstrip("\n")
RECURSIVE rstrip_nl(_)
rstrip_nl(s) ==
    IF s # <<>> /\ s[Len(s)] = "\n" THEN rstrip_nl(SubSeq(s, 1, Len(s) - 1)) ELSE s

\* s.rstrip()
RECURSIVE rstrip(_)
rstrip(s) ==
    IF s # <<>> /\ IsSpace(s[Len(s)]) THEN rstrip(SubSeq(s, 1, Len(s) - 1)) ELSE s

\* s.lstrip()
RECURSIVE lstrip(_)
lstrip(s) == IF s # <<>> /\ IsSpace(Head(s)) THEN lstrip(Tail(s)) ELSE s

\* s.strip()
strip(s) == lstrip(rstrip(s))

\* s.startswith(prefix)
startswith(s, prefix) ==
    Len(s) >= Len(prefix) /\ SubSeq(s, 1, Len(prefix)) = prefix

\* s.splitlines() for texts whose only line boundary is "\n": the text is
\* cut after every "\n", and a final "\n" opens no further line.
RECURSIVE split_from(_, _)
split_from(s, cur) ==
    IF s = <<>> THEN (IF cur = <<>> THEN <<>> ELSE <<cur>>)
    ELSE IF Head(s) = "\n" THEN <<cur>> \o split_from(Tail(s), <<>>)
    ELSE split_from(Tail(s), Append(cur, Head(s)))

splitlines(s) == split_from(s, <<>>)

(***************************************************************************)
(* _adf_inline(text): _BOLD_RE = \*(.+?)\* scanned with finditer.           *)
(* A text node is [type |-> "text", text |-> t, marks |-> m]; m = <<>>     *)
(* stands for a node without the "marks" key.                              *)
(***************************************************************************)
Strong == <<[type |-> "strong"]>>

PlainNode(t) == [type |-> "text", text |-> t, marks |-> <<>>]
BoldNode(t) == [type |-> "text", text |-> t, marks |-> Strong]

\* A greedy (.+)\*: the last "*" at or after j ends the match.
RECURSIVE lazy_close_greedy(_, _)
lazy_close_greedy(t, j) ==
    IF j > Len(t) THEN 0
    ELSE IF t[j] = "\n" THEN 0
    ELSE IF lazy_close_greedy(t, j + 1) > 0 THEN lazy_close_greedy(t, j + 1)
    ELSE IF t[j] = "*" THEN j
    ELSE 0

\* The lazy (.+?)\* from candidate closing position j (1-based): the first
\* "*" at or after j ends the match; "." takes no "\n".  0: no match.
RECURSIVE lazy_close(_, _)
lazy_close(t, j) ==
    IF j > Len(t) THEN 0
    ELSE IF t[j] = "*" THEN j
    ELSE IF t[j] = "\n" THEN 0
    ELSE lazy_close(t, j + 1)

\* _BOLD_RE tried at position i (1-based): "*", one character that is not
\* "\n", then the lazy rest.  The position of the closing "*", or 0.
match_at(t, i) ==
    IF t[i] = "*" /\ i + 1 <= Len(t) /\ t[i + 1] # "\n"
    THEN lazy_close(t, i + 2)
    ELSE 0

\* The next match at or after position i: <<open, close>>, or <<0, 0>>.
RECURSIVE search(_, _)
search(t, i) ==
    IF i > Len(t) THEN <<0, 0>>
    ELSE IF match_at(t, i) > 0 THEN <<i, match_at(t, i)>>
    ELSE search(t, i + 1)

\* lines 133-136: the body of the finditer loop for the match <<open, close>>.
inline_step(t, last, ns, m) ==
    LET start == m[1] - 1     \* m.start(), 0-based
        before == IF start > last
                  THEN Append(ns, PlainNode(Slice(t, last, start)))
                  ELSE ns
    IN Append(before, BoldNode(SubSeq(t, m[1] + 1, m[2] - 1)))

\* lines 138-139
inline_tail(t, last, ns) ==
    IF last < Len(t) THEN Append(ns, PlainNode(SliceFrom(t, last))) ELSE ns

\* lines 131-139: the loop, with last = m.end() of the previous match.
RECURSIVE inline_loop(_, _, _)
inline_loop(t, last, ns) ==
    LET m == search(t, last + 1)
    IN IF m[1] = 0 THEN inline_tail(t, last, ns)
       ELSE inline_loop(t, m[2], inline_step(t, last, ns, m))

\* lines 122-142 (text is a str here; None is handled by the caller's "or")
_adf_inline(t) == SelectSeq(inline_loop(t, 0, <<>>), LAMBDA n : n.text # <<>>)

(***************************************************************************)
(* adf_from_plain(text)                                                    *)
(* The loop state is [content, current_list_type, list_items].             *)
(***************************************************************************)
Paragraph(inl) == [type |-> "paragraph", content |-> inl]
ListItem(item) == [type |-> "listItem", content |-> <<Paragraph(_adf_inline(item))>>]

\* flush_list without its guard: a list node is appended whatever is buffered.
flush_list_unguarded(st) ==
    LET list_node_type ==
            IF st.current_list_type = "bullet" THEN "bulletList" ELSE "orderedList"
        list_node == [type |-> list_node_type,
                      content |-> [k \in 1..Len(st.list_items) |->
                                      ListItem(st.list_items[k])]]
    IN [content |-> Append(st.content, list_node),
        current_list_type |-> None, list_items |-> <<>>]

\* lines 166-192
flush_list(st) ==
    IF st.current_list_type = None \/ st.list_items = <<>>
    THEN [st EXCEPT !.current_list_type = None, !.list_items = <<>>]
    ELSE LET list_node_type ==
                 IF st.current_list_type = "bullet" THEN "bulletList" ELSE "orderedList"
             list_node == [type |-> list_node_type,
                           content |-> [k \in 1..Len(st.list_items) |->
                                           ListItem(st.list_items[k])]]
         IN [content |-> Append(st.content, list_node),
             current_list_type |-> None, list_items |-> <<>>]

\* lines 194-198
add_paragraph(st, line) ==
    [st EXCEPT !.content = Append(st.content, Paragraph(_adf_inline(line)))]

\* A marker line that, when the list kind changes, drops the buffered items
\* instead of flushing them.
list_line_dropping(st, line, kind) ==
    LET item == strip(SliceFrom(line, 2))
        opened == IF st.current_list_type \notin {None, kind}
                  THEN [st EXCEPT !.list_items = <<>>] ELSE st
    IN [opened EXCEPT !.current_list_type = kind,
                      !.list_items = Append(opened.list_items, item)]

\* lines 210-216 and 219-225: a line carrying the marker of list kind.
list_line(st, line, kind) ==
    LET item == strip(SliceFrom(line, 2))
        opened == IF st.current_list_type \notin {None, kind} THEN flush_list(st) ELSE st
    IN [opened EXCEPT !.current_list_type = kind,
                      !.list_items = Append(opened.list_items, item)]

\* A loop body that looks for the markers in the raw line, its trailing
\* whitespace included.
line_step_raw(st, raw) ==
    LET line == raw
    IN IF strip(line) = <<>>
       THEN LET f == flush_list(st)
            IN [f EXCEPT !.content = Append(f.content, Paragraph(<<>>))]
       ELSE IF startswith(line, <<"-", " ">>) THEN list_line(st, line, "bullet")
       ELSE IF startswith(line, <<"#", " ">>) THEN list_line(st, line, "ordered")
       ELSE add_paragraph(flush_list(st), line)

\* lines 201-229: the loop body for one raw line.
line_step(st, raw) ==
    LET line == rstrip(raw)
    IN IF strip(line) = <<>>
       THEN LET f == flush_list(st)
            IN [f EXCEPT !.content = Append(f.content, Paragraph(<<>>))]
       ELSE IF startswith(line, <<"-", " ">>) THEN list_line(st, line, "bullet")
       ELSE IF startswith(line, <<"#", " ">>) THEN list_line(st, line, "ordered")
       ELSE add_paragraph(flush_list(st), line)

\* lines 200-229
RECURSIVE lines_loop(_, _)
lines_loop(st, lines) ==
    IF lines = <<>> THEN st
    ELSE lines_loop(line_step(st, Head(lines)), Tail(lines))

\* A compiler that forgets the flush after the loop.
finish_unflushed(st) == st.content

\* lines 231-233
finish(st) == flush_list(st).content

Document(content) == [type |-> "doc", version |-> 1, content |-> content]

\* A compiler that tests the text for emptiness only, not for blankness.
adf_from_plain_unstripped(t0) ==
    LET t == rstrip_nl(t0)
    IN IF t = <<>> THEN Document(<<>>)
       ELSE Document(finish(lines_loop(
                [content |-> <<>>, current_list_type |-> None, list_items |-> <<>>],
                splitlines(t))))

\* lines 145-233 (text is a str here; "text or ''" maps None to "")
adf_from_plain(t0) ==
    LET t == rstrip_nl(t0)
    IN IF strip(t) = <<>> THEN Document(<<>>)
       ELSE Document(finish(lines_loop(
                [content |-> <<>>, current_list_type |-> None, list_items |-> <<>>],
                splitlines(t))))

(***************************************************************************)
(* Inputs of the compiler: up to MaxLines lines taken from SampleLines,     *)
(* joined by "\n" and followed by up to MaxTrail newlines, and the texts   *)
(* the specification gives as examples.                                    *)
(***************************************************************************)
SampleLines ==
    { <<>>,                          \* ""
      <<" ">>,                       \* " "
      <<"-", " ", "a">>,             \* "- a"
      <<"-", " ", " ", "b", " ">>,   \* "-  b "
      <<"#", " ", "a">>,             \* "# a"
      <<"a">>,                       \* "a"
      <<"*", "a", "*", "b">> }       \* "*a*b"

RECURSIVE JoinLines(_)
JoinLines(ls) ==
    IF ls = <<>> THEN <<>>
    ELSE IF Len(ls) = 1 THEN ls[1]
    ELSE ls[1] \o <<"\n">> \o JoinLines(Tail(ls))

Newlines(k) == [i \in 1..k |-> "\n"]

\* "- a\n- b\n\n# x\n# y"
ExampleLists ==
    <<"-", " ", "a", "\n", "-", " ", "b", "\n", "\n",
      "#", " ", "x", "\n", "#", " ", "y">>

\* "hello\nworld"
ExampleTwoParagraphs ==
    <<"h", "e", "l", "l", "o", "\n", "w", "o", "r", "l", "d">>

\* "   \n\n"
ExampleBlank == <<" ", " ", " ", "\n", "\n">>

AdfTexts ==
    {JoinLines(ls) \o Newlines(k) : ls \in SeqUpTo(SampleLines, MaxLines), k \in 0..MaxTrail}
        \cup {ExampleLists, ExampleTwoParagraphs, ExampleBlank}

(***************************************************************************)
(* SpecAdf: adf_from_plain applied to every text of AdfTexts.              *)
(***************************************************************************)
InitAdf ==
    /\ pc = "call"
    /\ text \in AdfTexts
    /\ doc = None
    /\ nodes = <<>>
    /\ ParseIdle
    /\ HandlerIdle
    /\ SplitIdle
    /\ OAuthIdle
    /\ CasesIdle

Compile ==
    /\ pc = "call"
    /\ doc' = adf_from_plain(text)
    /\ pc' = "done"
    /\ UNCHANGED <<text, nodes>>
    /\ UNCHANGED parseVars
    /\ UNCHANGED splitVars
    /\ UNCHANGED oauthVars
    /\ UNCHANGED casesVars
    /\ UNCHANGED handlerVars

NextAdf == Compile

SpecAdf == InitAdf /\ [][NextAdf]_vars

(***************************************************************************)
(* SpecInline: _adf_inline applied to every line over InlineChars of       *)
(* length up to MaxInline, and to the example line of the specification.   *)
(***************************************************************************)
InlineChars == {"*", "a", " "}

\* "*bold* and plain"
ExampleBold ==
    <<"*", "b", "o", "l", "d", "*", " ", "a", "n", "d", " ",
      "p", "l", "a", "i", "n">>

InitInline ==
    /\ pc = "call"
    /\ text \in SeqUpTo(InlineChars, MaxInline) \cup {ExampleBold}
    /\ doc = None
    /\ nodes = <<>>
    /\ ParseIdle
    /\ HandlerIdle
    /\ SplitIdle
    /\ OAuthIdle
    /\ CasesIdle

Inline ==
    /\ pc = "call"
    /\ nodes' = _adf_inline(text)
    /\ pc' = "done"
    /\ UNCHANGED <<text, doc>>
    /\ UNCHANGED parseVars
    /\ UNCHANGED splitVars
    /\ UNCHANGED oauthVars
    /\ UNCHANGED casesVars
    /\ UNCHANGED handlerVars

NextInline == Inline

SpecInline == InitInline /\ [][NextInline]_vars

(***************************************************************************)
(* Properties of the compiler.  The lines of a text and their kinds are    *)
(* read off the text; a block of the document is found by counting: every  *)
(* line that carries no list marker and every run of marker lines accounts *)
(* for one block.                                                          *)
(***************************************************************************)
IsBlankText(t) == \A i \in DOMAIN t : IsSpace(t[i])

\* The lines the compiler works on: those of the text without its trailing
\* newlines.
TrimmedLines == splitlines(rstrip_nl(text))

\* Every physical line of the text as given.
PhysicalLines == splitlines(text)

KindOf(raw) ==
    LET line == rstrip(raw)
    IN IF line = <<>> THEN "blank"
       ELSE IF startswith(line, <<"-", " ">>) THEN "bullet"
       ELSE IF startswith(line, <<"#", " ">>) THEN "ordered"
       ELSE "para"

IsMarker(k) == k \in {"bullet", "ordered"}

ListTypes == {"bulletList", "orderedList"}

\* The first lines of the maximal runs of same-marker lines of ls.
RunStarts(ls) ==
    {a \in DOMAIN ls :
        /\ IsMarker(KindOf(ls[a]))
        /\ (a = 1 \/ KindOf(ls[a - 1]) # KindOf(ls[a]))}

\* The last line of the run that starts at line a.
RunEnd(ls, a) ==
    CHOOSE b \in a..Len(ls) :
        /\ \A i \in a..b : KindOf(ls[i]) = KindOf(ls[a])
        /\ (b = Len(ls) \/ KindOf(ls[b + 1]) # KindOf(ls[a]))

\* The index in the document of the block line i accounts for (for a marker
\* line: the block of the run it starts).
BlockOf(ls, i) ==
    Cardinality({j \in 1..(i - 1) : ~IsMarker(KindOf(ls[j]))})
        + Cardinality({r \in RunStarts(ls) : r < i}) + 1

ItemText(raw) == strip(SliceFrom(rstrip(raw), 2))

ListBlocks == {b \in DOMAIN doc.content : doc.content[b].type \in ListTypes}

\* C5: the document is {type: doc, version: 1, content: []} exactly for the
\* texts that are empty or hold only whitespace and newlines; any text with
\* another character yields at least one block.
C5_EmptyDocIffBlank ==
    pc = "done" =>
        /\ doc.type = "doc" /\ doc.version = 1
        /\ doc.content = <<>> <=> IsBlankText(text)

\* "   \n\n" was compiled to the empty document.
C5_Witness ==
    /\ pc = "done"
    /\ text = ExampleBlank
    /\ doc = [type |-> "doc", version |-> 1, content |-> <<>>]

\* C6: every maximal run of consecutive lines with the same list marker is
\* exactly one list node of the matching kind, at the run's place in the
\* document, with one listItem per line of the run in input order (also
\* when the run ends the input); there are no other list nodes; and
\* "- a\n- b\n\n# x\n# y" gives a bulletList of 2, an empty paragraph and an
\* orderedList of 2.
C6_RunIsOneListNode ==
    pc = "done" =>
        LET ls == TrimmedLines
        IN /\ Cardinality(ListBlocks) = Cardinality(RunStarts(ls))
           /\ \A a \in RunStarts(ls) :
                 /\ BlockOf(ls, a) \in DOMAIN doc.content
                 /\ LET node == doc.content[BlockOf(ls, a)]
                    IN /\ node.type = IF KindOf(ls[a]) = "bullet"
                                      THEN "bulletList" ELSE "orderedList"
                       /\ Len(node.content) = RunEnd(ls, a) - a + 1
                       /\ \A j \in DOMAIN node.content :
                             node.content[j] = ListItem(ItemText(ls[a + j - 1]))
           /\ text = ExampleLists =>
                 /\ Len(doc.content) = 3
                 /\ doc.content[1].type = "bulletList"
                 /\ Len(doc.content[1].content) = 2
                 /\ doc.content[2] = Paragraph(<<>>)
                 /\ doc.content[3].type = "orderedList"
                 /\ Len(doc.content[3].content) = 2

\* The example was compiled, and its ordered list, which ends the input,
\* is in the document.
C6_Witness ==
    /\ pc = "done"
    /\ text = ExampleLists
    /\ Len(doc.content) = 3
    /\ doc.content[3].type = "orderedList"

ListShape ==
    \A b \in ListBlocks :
        /\ Len(doc.content[b].content) >= 1
        /\ \A j \in DOMAIN doc.content[b].content :
              LET item == doc.content[b].content[j]
              IN /\ item.type = "listItem"
                 /\ Len(item.content) = 1
                 /\ item.content[1].type = "paragraph"

\* Every blank line of ls has an empty paragraph as its block.
BlankLinesAreEmptyParagraphs(ls) ==
    \A i \in DOMAIN ls :
        KindOf(ls[i]) = "blank" =>
            /\ BlockOf(ls, i) \in DOMAIN doc.content
            /\ doc.content[BlockOf(ls, i)] = Paragraph(<<>>)

\* C7 as claimed: every list node has at least one listItem, every listItem
\* holds exactly one paragraph, and every blank line of the input yields an
\* empty paragraph block.
C7_AsClaimed ==
    pc = "done" => ListShape /\ BlankLinesAreEmptyParagraphs(PhysicalLines)

\* C7 amended: every list node has at least one listItem, every listItem
\* holds exactly one paragraph, and, when the input is not whitespace-only,
\* every blank line among its lines after the trailing newlines are trimmed
\* yields an empty paragraph block (never a list node or list item).
C7_ListShapeBlankParagraph ==
    pc = "done" =>
        /\ ListShape
        /\ ~IsBlankText(text) => BlankLinesAreEmptyParagraphs(TrimmedLines)

\* A blank line between two list lines became an empty paragraph between
\* two list nodes.
C7_Witness ==
    /\ pc = "done"
    /\ Len(TrimmedLines) = 3
    /\ KindOf(TrimmedLines[1]) = "bullet"
    /\ KindOf(TrimmedLines[2]) = "blank"
    /\ KindOf(TrimmedLines[3]) = "bullet"
    /\ Len(doc.content) = 3
    /\ doc.content[1].type = "bulletList"
    /\ doc.content[2] = Paragraph(<<>>)
    /\ doc.content[3].type = "bulletList"

(***************************************************************************)
(* Properties of _adf_inline.                                              *)
(***************************************************************************)
IsBold(n) == n.marks = Strong

\* The source text of a node: a strong run with its delimiters restored.
Rendered(n) == IF IsBold(n) THEN <<"*">> \o n.text \o <<"*">> ELSE n.text

RECURSIVE RenderAll(_)
RenderAll(ns) == IF ns = <<>> THEN <<>> ELSE Rendered(Head(ns)) \o RenderAll(Tail(ns))

\* t holds a "*" and, at least two characters later, another one.
HasSpan(t) == \E i, j \in DOMAIN t : j >= i + 2 /\ t[i] = "*" /\ t[j] = "*"

\* C8: the runs, in input order and with the delimiters of the strong runs
\* restored, spell the line, so every "*" outside a span stays literal; a
\* strong run has at least one character and ends at the first "*" that can
\* close it (non-greedy); a span starts at the first "*" that can open one
\* (left to right), so the text before a span holds no "*" and the text
\* after the last span holds no span; the text between, before and after
\* spans is one unmarked run when not empty; and "*bold* and plain" gives
\* [strong "bold", plain " and plain"].
C8_InlineBoldSpans ==
    pc = "done" =>
        /\ RenderAll(nodes) = text
        /\ \A k \in DOMAIN nodes :
              /\ nodes[k].type = "text"
              /\ nodes[k].text # <<>>
              /\ nodes[k].marks \in {<<>>, Strong}
              /\ IsBold(nodes[k]) =>
                    \A c \in 2..Len(nodes[k].text) : nodes[k].text[c] # "*"
              /\ (~IsBold(nodes[k]) /\ k < Len(nodes)) =>
                    /\ IsBold(nodes[k + 1])
                    /\ \A c \in DOMAIN nodes[k].text : nodes[k].text[c] # "*"
              /\ (~IsBold(nodes[k]) /\ k = Len(nodes)) => ~HasSpan(nodes[k].text)
        /\ text = ExampleBold =>
              nodes = <<BoldNode(<<"b", "o", "l", "d">>),
                        PlainNode(<<" ", "a", "n", "d", " ", "p", "l", "a", "i", "n">>)>>

\* A line with text before, between and after two spans and a "*" left
\* over: "a*a*a*"  gives  plain "a", strong "a", plain "a*".
C8_Witness ==
    /\ pc = "done"
    /\ text = <<"a", "*", "a", "*", "a", "*">>
    /\ nodes = <<PlainNode(<<"a">>), BoldNode(<<"a">>), PlainNode(<<"a", "*">>)>>

(***************************************************************************)
(* Configuration (backend/config.py, the defaults).                        *)
(***************************************************************************)
JIRA_PROJECT_KEY == "NSOC"
CF_NSOC_TEAM == "customfield_10337"
CF_SEVERITY == "customfield_10300"
JIRA_LINK_TYPE_TEST == "Relates"
JIRA_LINK_TYPE_BUG == "Problem/Incident"

MaxBulk == 50            \* "Bulk create supports up to 50 issues per request."
TokenSlack == 60         \* expires_at > now + 60
DefaultExpiresIn == 3600 \* new_tokens.get("expires_in", 3600)

(***************************************************************************)
(* The stored OAuth document.  A field that was never set reads as None    *)
(* (expires_at: as 0, the default of doc.get("expires_at", 0)); exists is  *)
(* FALSE while the collection holds no "default" document.                 *)
(***************************************************************************)
\* _save_oauth_doc(doc): update_one with $set and upsert.
_save_oauth_doc(stored, upd) ==
    [k \in DOMAIN stored |->
        IF k = "exists" THEN TRUE
        ELSE IF k \in DOMAIN upd THEN upd[k] ELSE stored[k]]

\* _ensure_valid_access_token, lines 67-85: what happens before any refresh.
ensure_check(d, t) ==
    IF ~d.exists
    THEN [out |-> "raise", detail |-> "Not connected. Please connect to Jira first."]
    ELSE IF ~Truthy(d.cloud_id)
    THEN [out |-> "raise",
          detail |-> "Connected state is incomplete (missing cloud_id). Reconnect."]
    ELSE IF Truthy(d.access_token) /\ d.expires_at > t + TokenSlack
    THEN [out |-> "return", detail |-> ""]
    ELSE IF ~Truthy(d.refresh_token)
    THEN [out |-> "raise", detail |-> "Connection Expired. Reconnect."]
    ELSE [out |-> "refresh", detail |-> ""]

\* lines 91-98: the document saved when the refresh fails with an HTTPError.
refresh_failed_doc(d) ==
    [access_token |-> None, refresh_token |-> None, expires_at |-> 0,
     oauth_state |-> None, cloud_id |-> d.cloud_id, cloud_url |-> d.cloud_url]

\* lines 100-111: the document saved when the refresh succeeds.  new_tokens
\* is [access_token, refresh_token, expires_in], None for an absent
\* refresh_token and 0 for an absent expires_in.
refreshed_doc(d, t, new_tokens) ==
    [access_token |-> new_tokens.access_token,
     refresh_token |-> IF new_tokens.refresh_token = None
                       THEN d.refresh_token ELSE new_tokens.refresh_token,
     expires_at |-> t + (IF new_tokens.expires_in = 0
                         THEN DefaultExpiresIn ELSE new_tokens.expires_in),
     cloud_id |-> d.cloud_id, cloud_url |-> d.cloud_url, oauth_state |-> None]

auth_of(d, token) ==
    [access_token |-> token, cloud_id |-> d.cloud_id, cloud_url |-> d.cloud_url]

(***************************************************************************)
(* Rows and the field-build loop of jira_bulk_create.                      *)
(***************************************************************************)
\* s.split(): the maximal runs of non-whitespace characters.
RECURSIVE split_from_ws(_, _)
split_from_ws(s, cur) ==
    IF s = <<>> THEN (IF cur = <<>> THEN <<>> ELSE <<cur>>)
    ELSE IF IsSpace(Head(s))
    THEN (IF cur = <<>> THEN <<>> ELSE <<cur>>) \o split_from_ws(Tail(s), <<>>)
    ELSE split_from_ws(Tail(s), Append(cur, Head(s)))

split(s) == split_from_ws(s, <<>>)

\* A replacement that leaves the commas in.
replace_commas_none(s) == s

\* s.replace(",", " ")
replace_commas(s) == [i \in DOMAIN s |-> IF s[i] = "," THEN " " ELSE s[i]]

\* lines 236-239
_split_issue_keys(s) ==
    IF s = <<>> THEN <<>>
    ELSE LET toks == split(replace_commas(s))
             stripped == [i \in DOMAIN toks |-> strip(toks[i])]
         IN SelectSeq(stripped, LAMBDA t : t # <<>>)

\* line 392: any([...]) over the eight fields of a row.
non_empty(r) ==
    \/ r.summary # <<>> \/ r.issue_type # <<>> \/ r.description # <<>>
    \/ r.link_relates # <<>> \/ r.assignee # <<>> \/ r.labels # <<>>
    \/ r.nsoc_team # <<>> \/ r.severity # <<>>

\* lines 390-393
rows_of(p) == SelectSeq(p, non_empty)

\* A cap that lets one more row through.
over_cap_late(rows) == Len(rows) > MaxBulk + 1

\* line 396
over_cap(rows) == Len(rows) > MaxBulk

\* lines 413-432: the fields of one issue; None stands for a key not set.
fields_of(r, itype, summary) ==
    [project |-> JIRA_PROJECT_KEY,
     issuetype |-> itype,
     summary |-> summary,
     description |-> adf_from_plain(r.description),
     labels |-> split(r.labels),
     assignee |-> IF strip(r.assignee) # <<>> THEN strip(r.assignee) ELSE None,
     nsoc_team |-> IF CF_NSOC_TEAM # "" /\ strip(r.nsoc_team) # <<>>
                   THEN strip(r.nsoc_team) ELSE None,
     severity |-> IF CF_SEVERITY # "" /\ strip(r.severity) # <<>>
                  THEN strip(r.severity) ELSE None]

\* An iteration that keeps in kept_rows a row it builds no issue from.
build_step_keep_all(acc, r, itype) ==
    LET summary == strip(r.summary)
    IN IF summary = <<>>
       THEN [issue_updates |-> acc.issue_updates, kept_rows |-> Append(acc.kept_rows, r)]
       ELSE [issue_updates |-> Append(acc.issue_updates,
                                      [fields |-> fields_of(r, itype, summary),
                                       update |-> <<>>]),
             kept_rows |-> Append(acc.kept_rows, r)]

\* lines 409-435: one iteration of the loop; acc is [issue_updates,
\* kept_rows], and a row either leaves both alone or is appended to both.
build_step(acc, r, itype) ==
    LET summary == strip(r.summary)
    IN IF summary = <<>> THEN acc
       ELSE [issue_updates |-> Append(acc.issue_updates,
                                      [fields |-> fields_of(r, itype, summary),
                                       update |-> <<>>]),
             kept_rows |-> Append(acc.kept_rows, r)]

\* lines 405-435: the loop over rows, from two empty lists.  The rows are
\* taken in order; the evaluation goes by halves (the appends of the second
\* half follow those of the first) so that 51 rows do not nest 51 deep.
RECURSIVE build(_, _)
build(rows, itype) ==
    LET empty == [issue_updates |-> <<>>, kept_rows |-> <<>>]
    IN IF rows = <<>> THEN empty
       ELSE IF Len(rows) = 1 THEN build_step(empty, rows[1], itype)
       ELSE LET h == Len(rows) \div 2
                first == build(SubSeq(rows, 1, h), itype)
                second == build(SubSeq(rows, h + 1, Len(rows)), itype)
            IN [issue_updates |-> first.issue_updates \o second.issue_updates,
                kept_rows |-> first.kept_rows \o second.kept_rows]

\* lines 454-457
created_list(m) ==
    LET idxs == Ascending(DOMAIN m)
    IN [k \in DOMAIN idxs |-> [index |-> idxs[k], key |-> m[idxs[k]]]]

\* The link calls of one row in the reverse of the token order.
row_links_reversed(created_key, toks) ==
    [k \in DOMAIN toks |-> [from |-> created_key, to |-> toks[Len(toks) + 1 - k]]]

\* lines 466-467: the link calls of one row, in token order.
row_links(created_key, toks) ==
    [k \in DOMAIN toks |-> [from |-> created_key, to |-> toks[k]]]

\* lines 462-467: the link calls of the loop in the order it issues them.
RECURSIVE link_plan(_, _, _)
link_plan(kept, m, idx) ==
    IF idx >= Len(kept) THEN <<>>
    ELSE IF idx \in DOMAIN m /\ Truthy(m[idx])
    THEN row_links(m[idx], _split_issue_keys(kept[idx + 1].link_relates))
            \o link_plan(kept, m, idx + 1)
    ELSE link_plan(kept, m, idx + 1)

\* line 460
link_type_of(itype) == IF itype = "Test" THEN JIRA_LINK_TYPE_TEST ELSE JIRA_LINK_TYPE_BUG

(***************************************************************************)
(* Remote calls.  A call is [kind, issueUpdates, link, status]: kind is    *)
(* "refresh", "bulk" or "link"; status is 0 while the call is in flight,   *)
(* then the HTTP status, or -1 when requests raised instead of answering.  *)
(***************************************************************************)
NoLink == [type |-> "", from |-> "", to |-> <<>>]

RefreshCall == [kind |-> "refresh", issueUpdates |-> <<>>, link |-> NoLink, status |-> 0]
BulkCall(ups) == [kind |-> "bulk", issueUpdates |-> ups, link |-> NoLink, status |-> 0]
LinkCall(itype, l) ==
    [kind |-> "link", issueUpdates |-> <<>>,
     link |-> [type |-> link_type_of(itype), from |-> l.from, to |-> l.to], status |-> 0]

\* The log with the status of the call in flight filled in.
Answered(log, st) == [log EXCEPT ![Len(log)].status = st]

ErrorResponse(st, detail) ==
    [status |-> st, detail |-> detail, created |-> <<>>, jira_base_url |-> None]

\* An exception no handler catches: the framework answers 500.
Unhandled == ErrorResponse(500, "Internal Server Error")

(***************************************************************************)
(* jira_bulk_create as a sequence of steps, one per remote call it waits   *)
(* for: pc is "request" (received), "refreshing", "creating", "linking"    *)
(* (a token refresh, the batch create, a link creation is in flight) or    *)
(* "responded".                                                            *)
(***************************************************************************)
Respond(r, log) ==
    /\ pc' = "responded"
    /\ response' = r
    /\ calls' = log
    /\ UNCHANGED frame

\* lines 403-445, from the token on: build the issues, then either refuse
\* for want of a summary or send the batch.
Submit(auth, log, f) ==
    LET b == build(rows_of(payload), issue_type)
    IN IF b.issue_updates = <<>>
       THEN /\ pc' = "responded"
            /\ response' = ErrorResponse(400, "No valid issues (missing summary?).")
            /\ calls' = log
            /\ frame' = [f EXCEPT !.auth = auth]
       ELSE /\ pc' = "creating"
            /\ calls' = Append(log, BulkCall(b.issue_updates))
            /\ frame' = [f EXCEPT !.auth = auth]
            /\ UNCHANGED response

\* lines 387-399 and, in _ensure_valid_access_token, 67-88: from the
\* request to the first remote call or to the answer.
BulkStart ==
    /\ pc = "request"
    /\ LET rows == rows_of(payload)
           chk == ensure_check(oauth_doc, now)
           f == [frame EXCEPT !.doc = oauth_doc, !.now = now]
       IN IF issue_type \notin {"Test", "Bug"}
          THEN Respond(ErrorResponse(400, "issue_type must be \"Test\" or \"Bug\""), calls)
          ELSE IF rows = <<>>
          THEN Respond(ErrorResponse(400, "No non-empty rows to create."), calls)
          ELSE IF over_cap(rows)
          THEN Respond(ErrorResponse(400,
                           "Bulk create supports up to 50 issues per request."), calls)
          ELSE IF chk.out = "raise"
          THEN Respond(ErrorResponse(401, chk.detail), calls)
          ELSE IF chk.out = "return"
          THEN Submit(auth_of(oauth_doc, oauth_doc.access_token), calls, f)
          ELSE /\ pc' = "refreshing"
               /\ calls' = Append(calls, RefreshCall)
               /\ frame' = f
               /\ UNCHANGED response
    /\ UNCHANGED <<oauth_doc, now>>
    /\ UNCHANGED requestVars
    /\ UNCHANGED parseVars
    /\ UNCHANGED splitVars
    /\ UNCHANGED oauthVars
    /\ UNCHANGED casesVars
    /\ UNCHANGED adfVars

\* What the token endpoint may answer: new tokens with or without a new
\* refresh token and lifetime, an error status (raise_for_status raises
\* HTTPError), or no answer at all (requests raises a timeout/connection
\* error).
RefreshOutcomes ==
    {[kind |-> "ok", status |-> 200,
      tokens |-> [access_token |-> "at1", refresh_token |-> None, expires_in |-> 0]],
     [kind |-> "ok", status |-> 200,
      tokens |-> [access_token |-> "at1", refresh_token |-> "rt1", expires_in |-> 600]],
     [kind |-> "http_error", status |-> 403,
      tokens |-> [access_token |-> None, refresh_token |-> None, expires_in |-> 0]],
     [kind |-> "exception", status |-> -1,
      tokens |-> [access_token |-> None, refresh_token |-> None, expires_in |-> 0]]}

\* _ensure_valid_access_token lines 88-113, then lines 400-445.
RefreshReturn ==
    /\ pc = "refreshing"
    /\ \E out \in RefreshOutcomes :
          LET log == Answered(calls, out.status)
          IN IF out.kind = "http_error"
             THEN /\ oauth_doc' = _save_oauth_doc(oauth_doc, refresh_failed_doc(frame.doc))
                  /\ Respond(ErrorResponse(401,
                                 "Session expired. Please reconnect to Jira."), log)
             ELSE IF out.kind = "exception"
             THEN /\ Respond(Unhandled, log)
                  /\ UNCHANGED oauth_doc
             ELSE /\ oauth_doc' = _save_oauth_doc(oauth_doc,
                                      refreshed_doc(frame.doc, frame.now, out.tokens))
                  /\ Submit(auth_of(frame.doc, out.tokens.access_token), log, frame)
    /\ UNCHANGED now
    /\ UNCHANGED requestVars
    /\ UNCHANGED parseVars
    /\ UNCHANGED splitVars
    /\ UNCHANGED oauthVars
    /\ UNCHANGED casesVars
    /\ UNCHANGED adfVars

\* The failure sets of the tracker's answers to a batch of n: none, the
\* first position, the last position.
FailSets(n) == {{}, {0}, {n - 1}}

\* What the batch-create endpoint may answer to n issueUpdates: 201 with a
\* body, 401, another error status, or no answer at all.
BulkOutcomes(n) ==
    {[status |-> 201, json |-> ServerResponse(n, F, base)] :
        F \in FailSets(n), base \in {0, 1}}
      \cup {[status |-> st, json |-> [issues |-> <<>>, errors |-> <<>>]] :
               st \in {400, 401, 500, -1}}

OkResponse(m, auth) ==
    [status |-> 200, detail |-> "", created |-> created_list(m),
     jira_base_url |-> auth.cloud_url]

\* A test that lets the client errors through.
bulk_failed_5xx(st) == st >= 500

\* line 448
bulk_failed(st) == st >= 400

\* lines 446-469 up to the first link call or to the answer.
BulkReturn ==
    /\ pc = "creating"
    /\ LET b == build(rows_of(payload), issue_type)
       IN \E out \in BulkOutcomes(Len(b.issue_updates)) :
          LET log == Answered(calls, out.status)
              m == _parse_bulk_index_map(out.json, Len(b.issue_updates))
              plan == IF create_links THEN link_plan(b.kept_rows, m, 0) ELSE <<>>
          IN IF out.status = -1
             THEN Respond(Unhandled, log)
             ELSE IF out.status = 401
             THEN Respond(ErrorResponse(401, "Unauthorized calling Jira"), log)
             ELSE IF bulk_failed(out.status)
             THEN Respond(ErrorResponse(out.status, "resp.text"), log)
             ELSE IF plan = <<>>
             THEN /\ pc' = "responded"
                  /\ response' = OkResponse(m, frame.auth)
                  /\ calls' = log
                  /\ frame' = [frame EXCEPT !.idx_to_key = m]
             ELSE /\ pc' = "linking"
                  /\ calls' = Append(log, LinkCall(issue_type, Head(plan)))
                  /\ frame' = [frame EXCEPT !.idx_to_key = m, !.plan = Tail(plan)]
                  /\ UNCHANGED response
    /\ UNCHANGED <<oauth_doc, now>>
    /\ UNCHANGED requestVars
    /\ UNCHANGED parseVars
    /\ UNCHANGED splitVars
    /\ UNCHANGED oauthVars
    /\ UNCHANGED casesVars
    /\ UNCHANGED adfVars

\* _create_issue_link lines 264-272 and the loop of lines 462-469: the link
\* call in flight is answered (201, an error status, or not at all), and
\* the next one is issued or the request answered.
LinkReturn ==
    /\ pc = "linking"
    /\ \E st \in {201, 404, -1} :
          LET log == Answered(calls, st)
          IN IF st = -1
             THEN Respond(Unhandled, log)
             ELSE IF frame.plan = <<>>
             THEN Respond(OkResponse(frame.idx_to_key, frame.auth), log)
             ELSE /\ pc' = "linking"
                  /\ calls' = Append(log, LinkCall(issue_type, Head(frame.plan)))
                  /\ frame' = [frame EXCEPT !.plan = Tail(frame.plan)]
                  /\ UNCHANGED response
    /\ UNCHANGED <<oauth_doc, now>>
    /\ UNCHANGED requestVars
    /\ UNCHANGED parseVars
    /\ UNCHANGED splitVars
    /\ UNCHANGED oauthVars
    /\ UNCHANGED casesVars
    /\ UNCHANGED adfVars

(***************************************************************************)
(* Inputs of the handler.                                                  *)
(***************************************************************************)
Row(summary, description, link_relates, assignee, labels, team, severity) ==
    [summary |-> summary, issue_type |-> <<>>, description |-> description,
     link_relates |-> link_relates, assignee |-> assignee, labels |-> labels,
     nsoc_team |-> team, severity |-> severity]

EmptyRow == Row(<<>>, <<>>, <<>>, <<>>, <<>>, <<>>, <<>>)

\* summary "s"
SummaryRow == Row(<<"s">>, <<>>, <<>>, <<>>, <<>>, <<>>, <<>>)

\* summary " t", description "- a", link_relates "X, Y", assignee "u",
\* labels "x y", nsoc_team "n", severity "1"
LinkedRow ==
    Row(<<" ", "t">>, <<"-", " ", "a">>, <<"X", ",", " ", "Y">>, <<"u">>,
        <<"x", " ", "y">>, <<"n">>, <<"1">>)

\* only labels "x"
LabelOnlyRow == Row(<<>>, <<>>, <<>>, <<>>, <<"x">>, <<>>, <<>>)

\* summary " ": not empty, but empty once trimmed
BlankSummaryRow == Row(<<" ">>, <<>>, <<>>, <<>>, <<>>, <<>>, <<>>)

RowKinds == {EmptyRow, SummaryRow, LinkedRow, LabelOnlyRow, BlankSummaryRow}

Fill(k) == [i \in 1..k |-> SummaryRow]

\* Every payload of up to MaxRows rows, and the payloads around the cap: at
\* most one row of any kind followed by MaxBulk-1, MaxBulk or MaxBulk+1
\* summary rows.
Payloads ==
    SeqUpTo(RowKinds, MaxRows)
      \cup {p \o Fill(k) : p \in SeqUpTo(RowKinds, 1),
                           k \in {MaxBulk - 1, MaxBulk, MaxBulk + 1}}

Connected(t, access, refresh, expires) ==
    [exists |-> TRUE, access_token |-> access, refresh_token |-> refresh,
     expires_at |-> expires, cloud_id |-> "cloud-1",
     cloud_url |-> "https://site.atlassian.net", oauth_state |-> None]

\* The documents the OAuth routes leave behind: none; only a state (after
\* oauth_start); fresh tokens; tokens within the slack of their expiry, with
\* and without a refresh token; cleared after a failed refresh.
StoredDocs(t) ==
    {NoDoc,
     [NoDoc EXCEPT !.exists = TRUE, !.oauth_state = "state-1"],
     Connected(t, "at0", "rt0", t + TokenSlack + 1),
     Connected(t, "at0", "rt0", t + TokenSlack),
     Connected(t, "at0", None, t + TokenSlack),
     Connected(t, None, None, 0)}

(***************************************************************************)
(* SpecBulk: one jira_bulk_create request from its arrival to its answer.  *)
(***************************************************************************)
InitBulk ==
    /\ pc = "request"
    /\ now = ClockStart
    /\ oauth_doc \in StoredDocs(now)
    /\ payload \in Payloads
    /\ issue_type \in {"Test", "Bug", "Task"}
    /\ create_links \in BOOLEAN
    /\ frame = NoFrame
    /\ calls = <<>>
    /\ response = NoResponse
    /\ ParseIdle
    /\ AdfIdle
    /\ SplitIdle
    /\ OAuthIdle
    /\ CasesIdle

NextBulk == BulkStart \/ RefreshReturn \/ BulkReturn \/ LinkReturn

SpecBulk == InitBulk /\ [][NextBulk]_vars

(***************************************************************************)
(* Properties of the handler, stated from the request alone.               *)
(***************************************************************************)
RowFields ==
    {"summary", "issue_type", "description", "link_relates", "assignee",
     "labels", "nsoc_team", "severity"}

\* The positions of the payload whose row has some field filled in.
NonEmptyRows == {i \in DOMAIN payload : \E f \in RowFields : payload[i][f] # <<>>}

\* The positions of the payload whose row has a summary once trimmed.
SummaryRows ==
    {i \in DOMAIN payload : \E k \in DOMAIN payload[i].summary :
                                ~IsSpace(payload[i].summary[k])}

\* The three input-shape errors: no non-empty row, more non-empty rows than
\* the cap, no row with a summary.
InputShapeError ==
    \/ NonEmptyRows = {}
    \/ Cardinality(NonEmptyRows) > MaxBulk
    \/ SummaryRows = {}

\* C9: a request with an input-shape error (no non-empty row, batch over
\* the cap, or no row with a non-empty trimmed summary) is answered with
\* status 400, no step of it issues a remote call (a token refresh
\* included), and no step of it changes the stored OAuth document.
C9_ShapeErrorsBeforeRemote ==
    [][InputShapeError =>
          /\ calls' = <<>>
          /\ oauth_doc' = oauth_doc
          /\ (pc' = "responded" => response'.status = 400)]_vars

\* C10: a request with more than 50 kept rows is answered with status 400
\* and issues no remote call at all, so that every batch-create call sent
\* carries between 1 and 50 issueUpdates; 51 rows with a summary are never
\* submitted in part.
C10_CapRejectsWholeBatch ==
    /\ Cardinality(NonEmptyRows) > MaxBulk =>
          /\ calls = <<>>
          /\ pc \in {"request", "responded"}
          /\ (pc = "responded" => response.status = 400)
    /\ Cardinality(SummaryRows) > MaxBulk =>
          /\ calls = <<>>
          /\ (pc = "responded" => response.status = 400)
    /\ \A k \in DOMAIN calls :
          calls[k].kind = "bulk" =>
             /\ Len(calls[k].issueUpdates) \in 1..MaxBulk
             /\ Len(calls[k].issueUpdates) = Cardinality(SummaryRows)

\* 51 summary rows for a valid issue type and a connected account: answered
\* 400 with nothing sent.
C10_Witness ==
    /\ pc = "responded"
    /\ issue_type \in {"Test", "Bug"}
    /\ oauth_doc.access_token = "at0"
    /\ Cardinality(SummaryRows) = MaxBulk + 1
    /\ response.status = 400
    /\ response.detail = "Bulk create supports up to 50 issues per request."
    /\ calls = <<>>

(***************************************************************************)
(* The link fan-out, stated from the payload, the mapping and the log of   *)
(* remote calls.                                                           *)
(***************************************************************************)
\* The payload positions whose row has a summary, in payload order: the
\* kept rows, numbered from 0, are the rows at them.
KeptPositions ==
    SelectSeq([i \in DOMAIN payload |-> i],
              LAMBDA i : \E k \in DOMAIN payload[i].summary :
                            ~IsSpace(payload[i].summary[k]))

\* The batch call has been answered with a status below 400.
BulkSucceeded ==
    \E k \in DOMAIN calls : calls[k].kind = "bulk" /\ calls[k].status \in 1..399

\* The link targets of kept row i, kept being the kept positions: the
\* tokens of its link_relates when the mapping holds a key for i, none
\* otherwise.
TargetsOf(kept, i) ==
    IF i \in DOMAIN frame.idx_to_key /\ Truthy(frame.idx_to_key[i])
    THEN _split_issue_keys(payload[kept[i + 1]].link_relates)
    ELSE <<>>

\* The number of link calls due for the kept rows before row i.
RECURSIVE Offset(_, _)
Offset(kept, i) ==
    IF i = 0 THEN 0 ELSE Offset(kept, i - 1) + Len(TargetsOf(kept, i - 1))

\* The link calls due, in order: the p-th is for the row i whose calls span
\* p, and for the token of that row at p - Offset(i).
ExpectedLinks ==
    IF ~(create_links /\ BulkSucceeded) THEN <<>>
    ELSE LET kept == KeptPositions
             n == Len(kept)
         IN [p \in 1..Offset(kept, n) |->
               LET i == CHOOSE j \in 0..(n - 1) :
                           Offset(kept, j) < p /\ p <= Offset(kept, j + 1)
               IN [type |-> IF issue_type = "Test" THEN JIRA_LINK_TYPE_TEST
                            ELSE JIRA_LINK_TYPE_BUG,
                   from |-> frame.idx_to_key[i],
                   to |-> TargetsOf(kept, i)[p - Offset(kept, i)]]]

\* The link calls issued so far, in the order they were issued.
IssuedLinks ==
    LET ls == SelectSeq(calls, LAMBDA c : c.kind = "link")
    IN [k \in DOMAIN ls |-> ls[k].link]

C12_LinkFailureNeverRaised ==
    (pc = "responded" /\ BulkSucceeded) =>
        /\ response.status = 200
        /\ Len(IssuedLinks) = Len(ExpectedLinks)

\* The structured failure records a response carries: the records of its
\* list that have a status.
FailureRecords(r) ==
    {r.created[k] : k \in {j \in DOMAIN r.created : "status" \in DOMAIN r.created[j]}}

\* The link calls answered with an error status.
FailedLinkCalls ==
    {k \in DOMAIN calls : calls[k].kind = "link" /\ calls[k].status >= 400}

\* C13: the result the handler returns holds one structured failure record
\* (source key, target key, link type, status) for each link call that
\* failed.
C13_LinkFailuresRecorded ==
    (pc = "responded" /\ response.status = 200) =>
        \A k \in FailedLinkCalls :
            \E e \in FailureRecords(response) :
                /\ e.from = calls[k].link.from
                /\ e.to = calls[k].link.to
                /\ e.type = calls[k].link.type
                /\ e.status = calls[k].status

\* C14: link calls are issued only when create_links is true and only
\* after the batch call was answered with a status below 400; a batch call
\* answered with a status of 400 or more ends the request with an error of
\* that same status and without any link call.
C14_LinksOnlyAfterSuccess ==
    /\ \A k \in DOMAIN calls :
          calls[k].kind = "link" =>
             /\ create_links
             /\ \E j \in 1..(k - 1) :
                   calls[j].kind = "bulk" /\ calls[j].status \in 1..399
    /\ \A j \in DOMAIN calls :
          (calls[j].kind = "bulk" /\ calls[j].status >= 400) =>
             /\ pc = "responded"
             /\ response.status = calls[j].status
             /\ response.created = <<>>
             /\ IssuedLinks = <<>>

\* Links were asked for and the rows name link targets, but the batch call
\* was answered 400: the request is answered 400 and no link call is made.
C14_Witness ==
    /\ pc = "responded"
    /\ create_links
    /\ \E i \in DOMAIN payload :
          i \in SummaryRows /\ _split_issue_keys(payload[i].link_relates) # <<>>
    /\ \E j \in DOMAIN calls : calls[j].kind = "bulk" /\ calls[j].status = 400
    /\ response.status = 400

\* C15: after the field-build loop, kept_rows and issue_updates have the
\* same length, issue_updates[i] is built from kept_rows[i], and kept_rows
\* is the subsequence, in payload order, of the payload rows whose trimmed
\* summary is not empty; an empty row and a row with only other fields set
\* add nothing to either list.  The batch call carries these issue_updates.
C15_KeptRowsAligned ==
    issue_type \in {"Test", "Bug"} =>
        LET b == build(rows_of(payload), issue_type)
            kept == KeptPositions
        IN /\ Len(b.kept_rows) = Len(b.issue_updates)
           /\ Len(b.kept_rows) = Len(kept)
           /\ \A i \in DOMAIN kept : b.kept_rows[i] = payload[kept[i]]
           /\ \A i \in DOMAIN b.issue_updates :
                 /\ b.issue_updates[i].fields.summary = strip(b.kept_rows[i].summary)
                 /\ b.issue_updates[i].fields.summary # <<>>
                 /\ b.issue_updates[i].fields.description
                       = adf_from_plain(b.kept_rows[i].description)
                 /\ b.issue_updates[i].fields.labels = split(b.kept_rows[i].labels)
                 /\ b.issue_updates[i].fields.issuetype = issue_type
           /\ \A k \in DOMAIN calls :
                 calls[k].kind = "bulk" => calls[k].issueUpdates = b.issue_updates

\* A row with only labels before a row with a summary: the batch call in
\* flight carries one issue, built from the second row.
C15_Witness ==
    /\ pc = "creating"
    /\ Len(payload) = 2
    /\ payload[1].labels # <<>>
    /\ payload[1].summary = <<>>
    /\ payload[2].link_relates # <<>>
    /\ Len(calls[Len(calls)].issueUpdates) = 1
    /\ calls[Len(calls)].issueUpdates[1].fields.summary = strip(payload[2].summary)

\* C16: the cap of 50 counts the rows with a non-empty trimmed summary: a
\* request with more than 50 non-empty rows of which between 1 and 50 have
\* a summary is not rejected for exceeding the cap, and with a valid token
\* its rows with a summary are submitted in the batch call.
C16_CapCountsSummaryRows ==
    (/\ pc = "responded"
     /\ issue_type \in {"Test", "Bug"}
     /\ Cardinality(NonEmptyRows) > MaxBulk
     /\ Cardinality(SummaryRows) \in 1..MaxBulk)
    => /\ response.detail # "Bulk create supports up to 50 issues per request."
       /\ (Truthy(oauth_doc.access_token) /\ oauth_doc.expires_at > now + TokenSlack) =>
             \E k \in DOMAIN calls :
                /\ calls[k].kind = "bulk"
                /\ Len(calls[k].issueUpdates) = Cardinality(SummaryRows)

(***************************************************************************)
(* SpecSplit: one call of _split_issue_keys on an arbitrary short text of  *)
(* key characters, commas and whitespace.                                  *)
(***************************************************************************)
KeyChars == {"X", "Y", ",", " ", "\t"}

\* "X, Y" and "X,,Y  X"
ExampleKeys == {<<"X", ",", " ", "Y">>, <<"X", ",", ",", "Y", " ", " ", "X">>}

InitSplit ==
    /\ pc = "call"
    /\ link_text \in SeqUpTo(KeyChars, MaxKeyText) \cup ExampleKeys
    /\ keys = <<>>
    /\ ParseIdle
    /\ AdfIdle
    /\ HandlerIdle
    /\ OAuthIdle
    /\ CasesIdle

Split ==
    /\ pc = "call"
    /\ keys' = _split_issue_keys(link_text)
    /\ pc' = "done"
    /\ UNCHANGED link_text
    /\ UNCHANGED parseVars
    /\ UNCHANGED adfVars
    /\ UNCHANGED handlerVars
    /\ UNCHANGED oauthVars
    /\ UNCHANGED casesVars

NextSplit == Split

SpecSplit == InitSplit /\ [][NextSplit]_vars

\* A separator of link targets: a comma or a whitespace character.
IsSeparator(c) == c = "," \/ IsSpace(c)

\* The positions of link_text where a token starts: a character that is no
\* separator, at the start or after a separator.
TokenStarts ==
    {i \in DOMAIN link_text :
        /\ ~IsSeparator(link_text[i])
        /\ (i = 1 \/ IsSeparator(link_text[i - 1]))}

\* The last position of the token that starts at i.
TokenEnd(i) ==
    CHOOSE j \in i..Len(link_text) :
        /\ \A k \in i..j : ~IsSeparator(link_text[k])
        /\ (j = Len(link_text) \/ IsSeparator(link_text[j + 1]))

\* The maximal substrings of link_text without a separator, in order.
MaximalTokens ==
    LET starts == Ascending(TokenStarts)
    IN [k \in DOMAIN starts |-> SubSeq(link_text, starts[k], TokenEnd(starts[k]))]

\* C17: _split_issue_keys returns the maximal substrings of its argument
\* that hold neither a comma nor a whitespace character, in their order of
\* occurrence, duplicates included: no token is empty or holds a separator,
\* and the result is empty for an empty or separator-only argument.
C17_SplitIssueKeys ==
    pc = "done" =>
        /\ keys = MaximalTokens
        /\ \A k \in DOMAIN keys :
              /\ keys[k] # <<>>
              /\ \A c \in DOMAIN keys[k] : ~IsSeparator(keys[k][c])
        /\ (\A c \in DOMAIN link_text : IsSeparator(link_text[c])) => keys = <<>>

\* "X,,Y  X": commas and spaces mixed, a repeated key kept.
C17_Witness ==
    /\ pc = "done"
    /\ link_text = <<"X", ",", ",", "Y", " ", " ", "X">>
    /\ keys = << <<"X">>, <<"Y">>, <<"X">> >>

(***************************************************************************)
(* SpecAdfText: one call of adf_from_plain on an arbitrary short text,     *)
(* character by character.                                                 *)
(***************************************************************************)
AdfChars == {"-", "#", " ", "*", "a", "\n"}

\* "\n- *a*" and "- \n**\na"
ExampleItems ==
    {<<"\n", "-", " ", "*", "a", "*">>, <<"-", " ", "\n", "*", "*", "\n", "a">>}

InitAdfText ==
    /\ pc = "call"
    /\ text \in SeqUpTo(AdfChars, MaxText) \cup ExampleItems
    /\ doc = None
    /\ nodes = <<>>
    /\ ParseIdle
    /\ HandlerIdle
    /\ SplitIdle
    /\ OAuthIdle
    /\ CasesIdle

SpecAdfText == InitAdfText /\ [][NextAdf]_vars

\* Every text run of a paragraph has text.
RunsHaveText(par) == \A k \in DOMAIN par.content : par.content[k].text # <<>>

\* The paragraphs at the top level of the document.
TopParagraphs == {b \in DOMAIN doc.content : doc.content[b].type = "paragraph"}

\* C18: no text run of a returned document has empty text, and the only
\* paragraphs with an empty content list are the top-level paragraphs that
\* blank lines produce: the paragraph of a non-blank line and the paragraph
\* of every list item hold at least one text run.
C18_NoEmptyRuns ==
    pc = "done" =>
        LET ls == TrimmedLines
        IN /\ \A b \in TopParagraphs : RunsHaveText(doc.content[b])
           /\ \A b \in ListBlocks :
                 \A i \in DOMAIN doc.content[b].content :
                    LET item == doc.content[b].content[i]
                    IN /\ Len(item.content) = 1
                       /\ item.content[1].type = "paragraph"
                       /\ item.content[1].content # <<>>
                       /\ RunsHaveText(item.content[1])
           /\ ~IsBlankText(text) =>
                 /\ Cardinality(TopParagraphs)
                       = Cardinality({i \in DOMAIN ls : ~IsMarker(KindOf(ls[i]))})
                 /\ \A i \in DOMAIN ls :
                       ~IsMarker(KindOf(ls[i])) =>
                          /\ BlockOf(ls, i) \in TopParagraphs
                          /\ doc.content[BlockOf(ls, i)].content = <<>>
                                <=> KindOf(ls[i]) = "blank"

\* "\n- *a*": a blank line, then a list item whose only run is bold.
C18_Witness ==
    /\ pc = "done"
    /\ text = <<"\n", "-", " ", "*", "a", "*">>
    /\ Len(doc.content) = 2
    /\ doc.content[1] = Paragraph(<<>>)
    /\ doc.content[2].type = "bulletList"
    /\ doc.content[2].content[1].content[1].content = <<BoldNode(<<"a">>)>>

\* The top-level paragraphs and the list items of a sequence of blocks, in
\* document order, each with the kind of its block and its inline content.
RECURSIVE Units(_)
Units(blocks) ==
    IF blocks = <<>> THEN <<>>
    ELSE LET b == Head(blocks)
             own == IF b.type \in ListTypes
                    THEN [j \in DOMAIN b.content |->
                            [kind |-> b.type, content |-> b.content[j].content[1].content]]
                    ELSE <<[kind |-> b.type, content |-> b.content]>>
         IN own \o Units(Tail(blocks))

\* The paragraph or list item a line accounts for.
LineUnit(raw) ==
    LET k == KindOf(raw)
    IN IF k = "blank" THEN [kind |-> "paragraph", content |-> <<>>]
       ELSE IF k = "para"
       THEN [kind |-> "paragraph", content |-> _adf_inline(rstrip(raw))]
       ELSE [kind |-> IF k = "bullet" THEN "bulletList" ELSE "orderedList",
             content |-> _adf_inline(ItemText(raw))]

\* C19: for a text that is not whitespace-only, each line of the text
\* (trailing newlines trimmed) accounts for exactly one top-level paragraph
\* or exactly one list item: paragraphs plus list items number as many as
\* the lines, and read in document order they follow the lines in input
\* order, none dropped, doubled or moved.
C19_OneUnitPerLine ==
    (pc = "done" /\ ~IsBlankText(text)) =>
        LET ls == TrimmedLines
            units == Units(doc.content)
        IN /\ Len(units) = Len(ls)
           /\ \A i \in DOMAIN ls : units[i] = LineUnit(ls[i])
           /\ \A b \in DOMAIN doc.content :
                 doc.content[b].type \in ListTypes \cup {"paragraph"}

\* Four different lines, a bullet line then an ordered line among them,
\* gave four units in the order of the lines.
C19_Witness ==
    /\ pc = "done"
    /\ Len(TrimmedLines) = 4
    /\ KindOf(TrimmedLines[1]) = "para"
    /\ KindOf(TrimmedLines[2]) = "bullet"
    /\ KindOf(TrimmedLines[3]) = "ordered"
    /\ KindOf(TrimmedLines[4]) = "blank"
    /\ Len(doc.content) = 4
    /\ Len(Units(doc.content)) = 4

(***************************************************************************)
(* SpecOAuth: oauth_start and oauth_callback requests served concurrently  *)
(* on the one stored "default" document.  A request is a flow             *)
(* [kind, state, at, result, access_token, doc]: at is "idle" (not yet     *)
(* received), "exchanging" (the code exchange is in flight), "resources"   *)
(* (the accessible-resources call is in flight), "refreshing" (a token     *)
(* refresh is in flight) or "done"; doc is the document the request read.  *)
(* Each read and each write of the document is one step; the remote calls  *)
(* in between let other requests run.                                      *)
(***************************************************************************)
NoFlow ==
    [kind |-> "none", state |-> None, at |-> "idle", result |-> "", access_token |-> None,
     doc |-> NoDoc]

FlowIds == 1..MaxFlows

\* secrets.token_urlsafe(32): a value no earlier oauth_start returned.
FreshState ==
    "state-" \o ToString(Cardinality({i \in FlowIds : flows[i].kind = "start"}) + 1)

IssuedStates == {flows[i].state : i \in {j \in FlowIds : flows[j].kind = "start"}}

\* lines 278-295
oauth_start(i) ==
    /\ flows[i].at = "idle"
    /\ LET state == FreshState
       IN /\ oauth_doc' = _save_oauth_doc(oauth_doc, [oauth_state |-> state])
          /\ flows' = [flows EXCEPT ![i] = [NoFlow EXCEPT !.kind = "start", !.state = state,
                                                         !.at = "done",
                                                         !.result = "authorize"]]

\* lines 298-306: the checks of oauth_callback, up to the code exchange.
callback_check(i, code, state) ==
    /\ flows[i].at = "idle"
    /\ LET f == [NoFlow EXCEPT !.kind = "callback", !.state = state]
       IN flows' = [flows EXCEPT ![i] =
             IF ~Truthy(code) \/ ~Truthy(state)
             THEN [f EXCEPT !.at = "done", !.result = "missing_code_or_state"]
             ELSE IF oauth_doc.oauth_state # state
             THEN [f EXCEPT !.at = "done", !.result = "invalid_state"]
             ELSE [f EXCEPT !.at = "exchanging"]]
    /\ UNCHANGED oauth_doc

\* lines 306-311: _exchange_code_for_tokens answers with tokens, or raises.
exchange_return(i, ok) ==
    /\ flows[i].at = "exchanging"
    /\ flows' = [flows EXCEPT ![i] =
          IF ok
          THEN [@ EXCEPT !.at = "resources", !.access_token = "at-" \o ToString(i)]
          ELSE [@ EXCEPT !.at = "done", !.result = "error_500"]]
    /\ UNCHANGED oauth_doc

\* lines 311-327: _get_accessible_resources answers with the site, with
\* another resource only, with none, or raises; then the tokens are stored.
resources_return(i, found) ==
    /\ flows[i].at = "resources"
    /\ IF found = "error"
       THEN /\ flows' = [flows EXCEPT ![i] = [@ EXCEPT !.at = "done", !.result = "error_500"]]
            /\ UNCHANGED oauth_doc
       ELSE IF found = "none"
       THEN /\ flows' = [flows EXCEPT ![i] = [@ EXCEPT !.at = "done", !.result = "error_400"]]
            /\ UNCHANGED oauth_doc
       ELSE /\ oauth_doc' = _save_oauth_doc(oauth_doc,
                   [access_token |-> flows[i].access_token,
                    refresh_token |-> "rt1",
                    expires_at |-> now + DefaultExpiresIn,
                    cloud_id |-> IF found = "site" THEN "cloud-1" ELSE "cloud-2",
                    cloud_url |-> IF found = "site" THEN "https://site.atlassian.net"
                                  ELSE "https://other.atlassian.net",
                    oauth_state |-> None])
            /\ flows' = [flows EXCEPT ![i] = [@ EXCEPT !.at = "done", !.result = "connected"]]

\* The states a callback may carry: one an oauth_start issued, a made-up
\* one, or none.
CallbackStates == IssuedStates \cup {"forged", None}

OAuthFrame ==
    /\ UNCHANGED <<pc, now, payload, issue_type, create_links, frame, calls, response>>
    /\ UNCHANGED parseVars
    /\ UNCHANGED adfVars
    /\ UNCHANGED splitVars
    /\ UNCHANGED casesVars

OAuthStart == (\E i \in FlowIds : oauth_start(i)) /\ OAuthFrame

CallbackCheck ==
    /\ \E i \in FlowIds, code \in {"code", None}, state \in CallbackStates :
          callback_check(i, code, state)
    /\ OAuthFrame

ExchangeReturn == (\E i \in FlowIds, ok \in BOOLEAN : exchange_return(i, ok)) /\ OAuthFrame

ResourcesReturn ==
    /\ \E i \in FlowIds, found \in {"site", "other", "none", "error"} :
          resources_return(i, found)
    /\ OAuthFrame

InitOAuth ==
    /\ pc = "serving"
    /\ now = ClockStart
    /\ oauth_doc \in {NoDoc, Connected(now, "at0", "rt0", now + TokenSlack + 1)}
    /\ flows = [i \in FlowIds |-> NoFlow]
    /\ payload = <<>>
    /\ issue_type = ""
    /\ create_links = FALSE
    /\ frame = NoFrame
    /\ calls = <<>>
    /\ response = NoResponse
    /\ ParseIdle
    /\ AdfIdle
    /\ SplitIdle
    /\ CasesIdle

NextOAuth == OAuthStart \/ CallbackCheck \/ ExchangeReturn \/ ResourcesReturn

SpecOAuth == InitOAuth /\ [][NextOAuth]_vars

\* The callbacks that exchanged their code and stored tokens.
StoredTokens == {i \in FlowIds : flows[i].kind = "callback" /\ flows[i].result = "connected"}

\* Each state value is the state of at most one token-storing callback.
AtMostOneAccepted ==
    \A i, j \in StoredTokens : flows[i].state = flows[j].state => i = j

\* A callback received in this step goes on to the code exchange only if its
\* state is the stored oauth_state.
ExchangeOnlyOnStoredState ==
    \A i \in FlowIds :
        (flows[i].at = "idle" /\ flows'[i].at = "exchanging") =>
            flows'[i].state = oauth_doc.oauth_state

\* A callback received in this step, after a callback with the same state
\* has stored tokens, is answered invalid_state without a code exchange.
ReplayRejected ==
    \A i \in FlowIds :
        (/\ flows[i].at = "idle"
         /\ flows'[i].kind = "callback"
         /\ Truthy(flows'[i].state)
         /\ \E j \in StoredTokens : flows[j].state = flows'[i].state)
        => (flows'[i].at = "done" /\ flows'[i].result \in {"invalid_state",
                                                            "missing_code_or_state"})

\* C20: under any interleaving of oauth_start and oauth_callback requests
\* on the shared document, each state value issued by oauth_start is
\* accepted by at most one token-storing callback: a callback exchanges its
\* code only if its state is the stored oauth_state, and a callback that
\* comes after one that stored tokens with the same state is answered
\* invalid_state without a token exchange.
C20_StateAcceptedOnce ==
    [][AtMostOneAccepted' /\ ExchangeOnlyOnStoredState /\ ReplayRejected]_vars

(***************************************************************************)
(* SpecSession: requests that need a token (_ensure_valid_access_token),   *)
(* oauth_status requests and the OAuth routes, served concurrently on the  *)
(* stored document.                                                        *)
(***************************************************************************)
\* lines 330-351
oauth_status(d, t) ==
    IF ~d.exists THEN FALSE
    ELSE IF ~Truthy(d.access_token) /\ ~Truthy(d.refresh_token) THEN FALSE
    ELSE IF d.expires_at - t <= 0 /\ ~Truthy(d.refresh_token) THEN FALSE
    ELSE TRUE

\* _ensure_valid_access_token, lines 67-88: the document is read and the
\* call raises, returns the stored token, or sends the refresh.
ensure_start(i) ==
    /\ flows[i].at = "idle"
    /\ LET chk == ensure_check(oauth_doc, now)
           f == [NoFlow EXCEPT !.kind = "ensure", !.doc = oauth_doc]
       IN flows' = [flows EXCEPT ![i] =
             IF chk.out = "raise" THEN [f EXCEPT !.at = "done", !.result = "401"]
             ELSE IF chk.out = "return"
             THEN [f EXCEPT !.at = "done", !.result = "token",
                            !.access_token = oauth_doc.access_token]
             ELSE [f EXCEPT !.at = "refreshing"]]
    /\ UNCHANGED oauth_doc

\* _ensure_valid_access_token, lines 88-113: the refresh is answered.
refresh_answer(i, out) ==
    /\ flows[i].at = "refreshing"
    /\ IF out.kind = "http_error"
       THEN /\ oauth_doc' = _save_oauth_doc(oauth_doc, refresh_failed_doc(flows[i].doc))
            /\ flows' = [flows EXCEPT ![i] = [@ EXCEPT !.at = "done", !.result = "401"]]
       ELSE IF out.kind = "exception"
       THEN /\ flows' = [flows EXCEPT ![i] = [@ EXCEPT !.at = "done", !.result = "error_500"]]
            /\ UNCHANGED oauth_doc
       ELSE /\ oauth_doc' = _save_oauth_doc(oauth_doc,
                                refreshed_doc(flows[i].doc, now, out.tokens))
            /\ flows' = [flows EXCEPT ![i] = [@ EXCEPT !.at = "done", !.result = "token",
                                                        !.access_token = out.tokens.access_token]]

\* oauth_status, lines 329-351.
status_request(i) ==
    /\ flows[i].at = "idle"
    /\ flows' = [flows EXCEPT ![i] =
          [NoFlow EXCEPT !.kind = "status", !.at = "done",
                         !.result = IF oauth_status(oauth_doc, now)
                                    THEN "connected" ELSE "not_connected"]]
    /\ UNCHANGED oauth_doc

EnsureStart == (\E i \in FlowIds : ensure_start(i)) /\ OAuthFrame

RefreshAnswer ==
    (\E i \in FlowIds, out \in RefreshOutcomes : refresh_answer(i, out)) /\ OAuthFrame

StatusRequest == (\E i \in FlowIds : status_request(i)) /\ OAuthFrame

InitSession ==
    /\ pc = "serving"
    /\ now = ClockStart
    /\ oauth_doc \in {Connected(now, "at0", "rt0", now + TokenSlack),
                      Connected(now, "at0", "rt0", now + TokenSlack + 1)}
    /\ flows = [i \in FlowIds |-> NoFlow]
    /\ payload = <<>>
    /\ issue_type = ""
    /\ create_links = FALSE
    /\ frame = NoFrame
    /\ calls = <<>>
    /\ response = NoResponse
    /\ ParseIdle
    /\ AdfIdle
    /\ SplitIdle
    /\ CasesIdle

NextSession ==
    \/ EnsureStart \/ RefreshAnswer \/ StatusRequest
    \/ OAuthStart \/ CallbackCheck \/ ExchangeReturn \/ ResourcesReturn

SpecSession == InitSession /\ [][NextSession]_vars

\* The stored document holds neither an access token nor a refresh token.
TokensCleared ==
    oauth_doc.exists /\ ~Truthy(oauth_doc.access_token) /\ ~Truthy(oauth_doc.refresh_token)

\* This step is request i learning that its refresh failed with an HTTP
\* error.
RefreshFails(i) ==
    flows[i].at = "refreshing" /\ flows'[i].at = "done" /\ flows'[i].result = "401"

\* This step is an oauth_callback storing new tokens.
CallbackStores ==
    \E i \in FlowIds :
        flows[i].kind = "callback" /\ flows[i].at = "resources"
            /\ flows'[i].result = "connected"

\* A failed refresh clears both tokens, sets expires_at to 0, keeps cloud_id
\* and cloud_url, and ends the call with a 401 and no second refresh.
FailureClearsTokens ==
    \A i \in FlowIds :
        RefreshFails(i) =>
            /\ oauth_doc'.access_token = None
            /\ oauth_doc'.refresh_token = None
            /\ oauth_doc'.expires_at = 0
            /\ oauth_doc'.cloud_id = oauth_doc.cloud_id
            /\ oauth_doc'.cloud_url = oauth_doc.cloud_url

\* While the tokens are cleared, oauth_status answers connected = false and
\* _ensure_valid_access_token raises 401 without sending a refresh.
ClearedMeansDisconnected ==
    TokensCleared =>
        \A i \in FlowIds :
            /\ (flows[i].at = "idle" /\ flows'[i].kind = "status")
                  => flows'[i].result = "not_connected"
            /\ (flows[i].at = "idle" /\ flows'[i].kind = "ensure")
                  => (flows'[i].at = "done" /\ flows'[i].result = "401")

\* Cleared tokens stay cleared until an oauth_callback stores new ones.
ClearedUntilCallback ==
    (TokensCleared /\ ~TokensCleared') => CallbackStores

\* C21: when the token refresh of _ensure_valid_access_token fails with an
\* HTTP error, access_token and refresh_token are cleared and expires_at is
\* set to 0 while cloud_id and cloud_url are kept, and a 401 is raised with
\* no retry; from then until an oauth_callback stores new tokens,
\* oauth_status reports connected = false and every call of
\* _ensure_valid_access_token raises 401 without another refresh or any
\* other remote call.
C21_RefreshFailureDisconnects ==
    [][FailureClearsTokens /\ ClearedMeansDisconnected /\ ClearedUntilCallback]_vars

(***************************************************************************)
(* SpecCases: save_db and clear_cases requests (routers/cases.py) served   *)
(* one after the other on the stored cases collection.  The body of        *)
(* save_db is [rows_kind, rows]: rows_kind tells whether "rows" is         *)
(* missing, not a list, or a list; an entry of the list is [dict, row],    *)
(* dict telling whether it is a JSON object.                               *)
(***************************************************************************)
TestType == <<"T", "e", "s", "t">>
BugType == <<"B", "u", "g">>

\* lines 64-74: the document stored for a row; created_at is the time of
\* the request.
case_doc(r, t) ==
    [summary |-> strip(r.summary), issue_type |-> strip(r.issue_type),
     description |-> strip(r.description), link_relates |-> strip(r.link_relates),
     assignee |-> strip(r.assignee), labels |-> strip(r.labels),
     nsoc_team |-> strip(r.nsoc_team), severity |-> strip(r.severity),
     created_at |-> t]

\* lines 56-74: the documents of the entries that are objects with some
\* field set.
case_docs(rows, t) ==
    LET kept == SelectSeq(rows, LAMBDA e : e.dict /\ non_empty(e.row))
    IN [k \in DOMAIN kept |-> case_doc(kept[k].row, t)]

\* delete_many({"issue_type": issue_type}): what is left of the collection.
delete_many(col, itype) == SelectSeq(col, LAMBDA d : d.issue_type # itype)

\* lines 49-80
save_db(body, itype) ==
    LET n == cases_req.n + 1
        docs == case_docs(body.rows, n)
    IN /\ cases_req' = [n |-> n, kind |-> "save", issue_type |-> itype]
       /\ IF body.rows_kind # "list" \/ body.rows = <<>>
          THEN /\ cases_resp' = [status |-> 400,
                                 detail |-> "\"rows\" must be a non-empty array",
                                 count |-> 0]
               /\ UNCHANGED cases_col
          ELSE IF docs = <<>>
          THEN /\ cases_col' = delete_many(cases_col, itype)
               /\ cases_resp' = [status |-> 400, detail |-> "No non-empty rows to save.",
                                 count |-> 0]
          ELSE /\ cases_col' = delete_many(cases_col, itype) \o docs
               /\ cases_resp' = [status |-> 200, detail |-> "overwrite",
                                 count |-> Len(docs)]

\* lines 87-90
clear_cases(itype) ==
    /\ cases_req' = [n |-> cases_req.n + 1, kind |-> "clear", issue_type |-> itype]
    /\ cases_col' = delete_many(cases_col, itype)
    /\ cases_resp' = [status |-> 200, detail |-> "",
                      count |-> Len(cases_col) - Len(delete_many(cases_col, itype))]

\* a row with summary "s" of type "Test", and one with summary "b" of type "Bug".
TestCase == [EmptyRow EXCEPT !.summary = <<"s">>, !.issue_type = TestType]
BugCase == [EmptyRow EXCEPT !.summary = <<"b">>, !.issue_type = BugType]

CaseEntries ==
    {[dict |-> TRUE, row |-> r] : r \in {EmptyRow, TestCase, BugCase}}
        \cup {[dict |-> FALSE, row |-> EmptyRow]}

CaseBodies ==
    {[rows_kind |-> k, rows |-> <<>>] : k \in {"missing", "not_list"}}
        \cup {[rows_kind |-> "list", rows |-> rs] : rs \in SeqUpTo(CaseEntries, MaxCaseRows)}

CasesFrame ==
    /\ UNCHANGED <<pc, oauth_doc, now, payload, issue_type, create_links, frame, calls,
                   response>>
    /\ UNCHANGED parseVars
    /\ UNCHANGED adfVars
    /\ UNCHANGED splitVars
    /\ UNCHANGED oauthVars

SaveDb ==
    /\ cases_req.n < MaxCaseRequests
    /\ \E body \in CaseBodies, itype \in {TestType, BugType} : save_db(body, itype)
    /\ CasesFrame

ClearCases ==
    /\ cases_req.n < MaxCaseRequests
    /\ \E itype \in {TestType, BugType} : clear_cases(itype)
    /\ CasesFrame

InitCases ==
    /\ pc = "serving"
    /\ cases_col \in {<<>>, <<case_doc(TestCase, 0), case_doc(BugCase, 0)>>}
    /\ cases_req = NoCasesRequest
    /\ cases_resp = NoCasesResponse
    /\ ParseIdle
    /\ AdfIdle
    /\ HandlerIdle
    /\ SplitIdle
    /\ OAuthIdle

NextCases == SaveDb \/ ClearCases

SpecCases == InitCases /\ [][NextCases]_vars

\* C22: a save_db request answered with a 400 (rows missing, not a list,
\* empty, or without a non-empty row) leaves the stored cases unchanged;
\* stored rows are deleted only by a save_db request that goes on to insert
\* its replacement rows, or by clear_cases.
C22_FailedSaveKeepsCases ==
    [][/\ (cases_req'.kind = "save" /\ cases_resp'.status = 400)
             => cases_col' = cases_col
       /\ (\E k \in DOMAIN cases_col :
              \A j \in DOMAIN cases_col' : cases_col'[j] # cases_col[k])
             => \/ cases_req'.kind = "clear"
                \/ (cases_req'.kind = "save" /\ cases_resp'.status = 200
                       /\ cases_resp'.count >= 1)]_vars

Spec == SpecParse
====
